---- MODULE Spec2Model ----
(***************************************************************************)
(* Model of seeed-erpc-rs: the eRPC wire codec used to talk to the Wio     *)
(* Terminal's wifi co-processor.                                           *)
(*                                                                         *)
(*   - codec.rs : Header (8 bytes), FrameHeader (4 bytes), crc16           *)
(*   - ids.rs   : MsgType / Service enumerations and request ids           *)
(*   - lib.rs   : Err<E>, the RPC trait                                    *)
(*   - *_rpcs.rs: the concrete calls and their reply parsers               *)
(*                                                                         *)
(* Bytes are integers 0..255, buffers are sequences of bytes.  u32 values  *)
(* are kept as two 16-bit halves and all arithmetic on them is reduced     *)
(* modulo 2^32 exactly where the Rust code would wrap or truncate.         *)
(***************************************************************************)
EXTENDS Integers, Sequences, FiniteSets, TLC

VARIABLES
    \* --- header / frame codec harness (codec.rs) ---
    h,        \* the Header value last encoded, or NoHeader
    out,      \* the bytes Header::as_bytes produced for h
    inp,      \* the decoder's input buffer
    dec,      \* outcome of the last Header::parse, or None
    fdec,     \* outcome of the last FrameHeader::parse, or None
    \* --- frame integrity harness (codec.rs) ---
    msg,      \* the payload a frame was built for
    fh,       \* the FrameHeader built by new_from_msg, or None
    data,     \* the payload as received (possibly altered in transit)
    chk,      \* outcome of the last check_crc, or None
    \* --- one RPC exchange (lib.rs, *_rpcs.rs) ---
    pc,       \* "idle" | "awaiting" | "received" | "parsed"
    call,     \* the call being made
    seq,      \* the sequence number the call's header was built with
    sent,     \* the invocation header bytes that were transmitted
    reply,    \* the reply buffer handed to parse
    res,      \* the outcome of parse
    prev,     \* the outcome of parse on the earlier delivery of this reply
    \* --- argument serialization (RPC::args) ---
    rpc,      \* the call value whose arguments are serialized, or None
    buff      \* the heapless::Vec<u8, 64> after args(buff), or None

hvars == <<h, out, inp, dec, fdec>>
fvars == <<msg, fh, data, chk>>
rvars == <<pc, call, seq, sent, reply, res, prev>>
avars == <<rpc, buff>>
vars == <<h, out, inp, dec, fdec, msg, fh, data, chk,
          pc, call, seq, sent, reply, res, prev, rpc, buff>>

None == [kind |-> "None"]
NoHeader == [service |-> "None", request |-> 0, msg_type |-> "None",
             sequence |-> [hi |-> 0, lo |-> 0]]

(***************************************************************************)
(* Machine arithmetic.  u8, u16 and i32 values are plain integers.  A u32  *)
(* is kept as its two 16-bit halves [hi, lo], so that every u32 of the     *)
(* program (sequence numbers, declared lengths, the crc accumulator) is    *)
(* represented exactly, including those of 2^31 and above.                 *)
(***************************************************************************)
U8  == 256
U16 == 65536

RECURSIVE BitOr(_, _)
BitOr(a, b) ==
    IF a = 0 THEN b
    ELSE IF b = 0 THEN a
    ELSE (IF (a % 2) + (b % 2) > 0 THEN 1 ELSE 0) + (2 * BitOr(a \div 2, b \div 2))

RECURSIVE BitXor(_, _)
BitXor(a, b) ==
    IF a = 0 THEN b
    ELSE IF b = 0 THEN a
    ELSE (((a % 2) + (b % 2)) % 2) + (2 * BitXor(a \div 2, b \div 2))

RECURSIVE BitAnd(_, _)
BitAnd(a, b) ==
    IF a = 0 \/ b = 0 THEN 0
    ELSE ((a % 2) * (b % 2)) + (2 * BitAnd(a \div 2, b \div 2))

\* `x as u32` for a u8 / u16 value x
W(x) == [hi |-> 0, lo |-> x]
\* the u32 with the given halves
W2(hi, lo) == [hi |-> hi, lo |-> lo]

\* u32 `<<`: bits shifted past bit 31 are dropped
RECURSIVE Shl32(_, _)
Shl32(a, n) ==
    IF n = 0 THEN a
    ELSE Shl32(W2((a.hi * 2 + a.lo \div 32768) % U16, (a.lo * 2) % U16), n - 1)
\* u32 `>>`
RECURSIVE Shr32(_, _)
Shr32(a, n) ==
    IF n = 0 THEN a
    ELSE Shr32(W2(a.hi \div 2, (a.lo \div 2) + ((a.hi % 2) * 32768)), n - 1)
\* u32 `|`, `^`, `&`
Or32(a, b)  == W2(BitOr(a.hi, b.hi), BitOr(a.lo, b.lo))
Xor32(a, b) == W2(BitXor(a.hi, b.hi), BitXor(a.lo, b.lo))
And32(a, b) == W2(BitAnd(a.hi, b.hi), BitAnd(a.lo, b.lo))
\* u32 `>` against a small constant
Gt32(a, k) == a.hi > 0 \/ a.lo > k

\* `x as u8`, `x as u16` for a u32 x; `x as u16` for a length; `x as i32`
AsU8(x)  == x.lo % U8
AsU16(x) == x.lo
LenAsU16(n) == n % U16
AsI32(x) == IF x.hi >= 32768 THEN ((x.hi - U16) * U16) + x.lo ELSE (x.hi * U16) + x.lo

\* u32::to_le_bytes / u16::to_le_bytes
to_le_bytes32(x) == << x.lo % 256, x.lo \div 256, x.hi % 256, x.hi \div 256 >>
to_le_bytes16(x) == << x % 256, (x \div 256) % 256 >>

Drop(s, n) == SubSeq(s, n + 1, Len(s))
Take(s, n) == SubSeq(s, 1, n)

(***************************************************************************)
(* nom streaming primitives, as the parsers use them: fewer bytes than     *)
(* the field needs is Err::Incomplete, never Err::Error.                   *)
(***************************************************************************)
Incomplete == [ok |-> FALSE, err |-> "Incomplete"]
Parsed(v, rest) == [ok |-> TRUE, val |-> v, rest |-> rest]

le_u8(i) ==
    IF Len(i) < 1 THEN Incomplete ELSE Parsed(i[1], Drop(i, 1))
le_u16(i) ==
    IF Len(i) < 2 THEN Incomplete
    ELSE Parsed(i[1] + (U8 * i[2]), Drop(i, 2))
le_u32(i) ==
    IF Len(i) < 4 THEN Incomplete
    ELSE Parsed(W2(i[3] + (U8 * i[4]), i[1] + (U8 * i[2])), Drop(i, 4))
le_i16(i) ==
    LET r == le_u16(i)
    IN IF ~r.ok THEN r
       ELSE Parsed(IF r.val >= 32768 THEN r.val - U16 ELSE r.val, r.rest)
le_i32(i) ==
    LET r == le_u32(i)
    IN IF ~r.ok THEN r ELSE Parsed(AsI32(r.val), r.rest)
take(n, i) ==
    IF Len(i) < n THEN Incomplete ELSE Parsed(Take(i, n), Drop(i, n))

(***************************************************************************)
(* ids.rs                                                                  *)
(***************************************************************************)
MsgTypes == {"Invocation", "Oneway", "Reply", "Notification", "Unknown"}
Services == {"System", "BLEHost", "BLEGap", "BLEGapBone", "BLECallback",
             "Wifi", "TCPIP", "WifiCallback", "Unknown"}

\* `msg_type as u32`
MsgTypeAsU32(m) ==
    CASE m = "Invocation"   -> 0
      [] m = "Oneway"       -> 1
      [] m = "Reply"        -> 2
      [] m = "Notification" -> 3
      [] m = "Unknown"      -> 255

MsgTypeFromLowBits(mt) ==
    CASE mt % 4 = 0 -> "Invocation"
      [] mt % 4 = 1 -> "Oneway"
      [] mt % 4 = 2 -> "Reply"
      [] mt % 4 = 3 -> "Notification"
      [] OTHER      -> "Unknown"

\* impl From<u8> for MsgType
MsgTypeFrom(mt) ==
    CASE mt = 0 -> "Invocation"
      [] mt = 1 -> "Oneway"
      [] mt = 2 -> "Reply"
      [] mt = 3 -> "Notification"
      [] OTHER  -> "Unknown"

\* `service as u32`
ServiceAsU32(s) ==
    CASE s = "System"       -> 1
      [] s = "BLEHost"      -> 2
      [] s = "BLEGap"       -> 3
      [] s = "BLEGapBone"   -> 4
      [] s = "BLECallback"  -> 13
      [] s = "Wifi"         -> 14
      [] s = "TCPIP"        -> 15
      [] s = "WifiCallback" -> 18
      [] s = "Unknown"      -> 255

ServiceFromDropsCallback(mt) ==
    CASE mt = 1  -> "System"
      [] mt = 2  -> "BLEHost"
      [] mt = 3  -> "BLEGap"
      [] mt = 4  -> "BLEGapBone"
      [] mt = 13 -> "BLECallback"
      [] mt = 14 -> "Wifi"
      [] mt = 15 -> "TCPIP"
      [] OTHER   -> "Unknown"

\* impl From<u8> for Service
ServiceFrom(mt) ==
    CASE mt = 1  -> "System"
      [] mt = 2  -> "BLEHost"
      [] mt = 3  -> "BLEGap"
      [] mt = 4  -> "BLEGapBone"
      [] mt = 13 -> "BLECallback"
      [] mt = 14 -> "Wifi"
      [] mt = 15 -> "TCPIP"
      [] mt = 18 -> "WifiCallback"
      [] OTHER   -> "Unknown"

(***************************************************************************)
(* codec.rs: Header                                                        *)
(***************************************************************************)
BASIC_CODEC_VERSION == 1

Header(s, r, m, q) == [service |-> s, request |-> r, msg_type |-> m, sequence |-> q]

as_bytes_big_endian(hd) ==
    LET header == Or32(Or32(Or32(Shl32(W(BASIC_CODEC_VERSION), 24),
                                 Shl32(W(ServiceAsU32(hd.service)), 16)),
                            Shl32(W(hd.request), 8)),
                       W(MsgTypeAsU32(hd.msg_type)))
        hb == to_le_bytes32(header)
        sq == to_le_bytes32(hd.sequence)
    IN << hb[4], hb[3], hb[2], hb[1], sq[4], sq[3], sq[2], sq[1] >>

as_bytes_swaps_service_request(hd) ==
    LET header == Or32(Or32(Or32(Shl32(W(BASIC_CODEC_VERSION), 24),
                                 Shl32(W(ServiceAsU32(hd.service)), 8)),
                            Shl32(W(hd.request), 16)),
                       W(MsgTypeAsU32(hd.msg_type)))
        hb == to_le_bytes32(header)
        sq == to_le_bytes32(hd.sequence)
    IN << hb[1], hb[2], hb[3], hb[4], sq[1], sq[2], sq[3], sq[4] >>

\* Header::as_bytes
as_bytes(hd) ==
    LET header == Or32(Or32(Or32(Shl32(W(BASIC_CODEC_VERSION), 24),
                                 Shl32(W(ServiceAsU32(hd.service)), 16)),
                            Shl32(W(hd.request), 8)),
                       W(MsgTypeAsU32(hd.msg_type)))
        hb == to_le_bytes32(header)
        sq == to_le_bytes32(hd.sequence)
    IN << hb[1], hb[2], hb[3], hb[4], sq[1], sq[2], sq[3], sq[4] >>

\* the fields Header::parse builds from the two words it read
HeaderFromWords(header, sequence) ==
    Header(ServiceFrom(AsU8(And32(Shr32(header, 16), W(255)))),
           AsU8(And32(Shr32(header, 8), W(255))),
           MsgTypeFrom(AsU8(And32(header, W(255)))),
           sequence)

Header_parse_short_is_error(i) ==
    LET r1 == le_u32(i)
    IN IF ~r1.ok THEN [ok |-> FALSE, err |-> "Error"]
       ELSE LET r2 == le_u32(r1.rest)
            IN IF ~r2.ok THEN [ok |-> FALSE, err |-> "Error"]
               ELSE Parsed(HeaderFromWords(r1.val, r2.val), r2.rest)

\* Header::parse
Header_parse(i) ==
    LET r1 == le_u32(i)
    IN IF ~r1.ok THEN r1
       ELSE LET r2 == le_u32(r1.rest)
            IN IF ~r2.ok THEN r2
               ELSE Parsed(HeaderFromWords(r1.val, r2.val), r2.rest)

(***************************************************************************)
(* codec.rs: FrameHeader and crc16                                         *)
(***************************************************************************)
CRC_INIT == 61258      \* 0xEF4A
CRC_POLY == 4129       \* 0x1021
CRC_TOPBIT == 32768    \* 0x8000

RECURSIVE crc16_bits_tests_shifted(_, _)
crc16_bits_tests_shifted(crc, n) ==
    IF n = 0 THEN crc
    ELSE LET temp == Shl32(crc, 1)
         IN IF And32(temp, W(CRC_TOPBIT)) # W(0)
            THEN crc16_bits_tests_shifted(Xor32(temp, W(CRC_POLY)), n - 1)
            ELSE crc16_bits_tests_shifted(temp, n - 1)

\* the inner `for _ in 0..8` loop; crc is the u32 accumulator
RECURSIVE crc16_bits(_, _)
crc16_bits(crc, n) ==
    IF n = 0 THEN crc
    ELSE LET temp == Shl32(crc, 1)
         IN IF And32(crc, W(CRC_TOPBIT)) # W(0)
            THEN crc16_bits(Xor32(temp, W(CRC_POLY)), n - 1)
            ELSE crc16_bits(temp, n - 1)

\* the outer `for b in data.iter_elements()` loop over d[lo..hi], taken as the
\* loop over the first half followed by the loop over the second half
RECURSIVE crc16_range(_, _, _, _)
crc16_range(crc, d, lo, hi) ==
    IF lo > hi THEN crc
    ELSE IF lo = hi THEN crc16_bits(Xor32(crc, Shl32(W(d[lo]), 8)), 8)
    ELSE LET mid == (lo + hi) \div 2
             first == crc16_range(crc, d, lo, mid)
         IN IF first.lo < 0 THEN first ELSE crc16_range(first, d, mid + 1, hi)

\* the outer `for b in data.iter_elements()` loop
crc16_bytes(crc, d) == crc16_range(crc, d, 1, Len(d))

\* crc16
crc16(d) == AsU16(crc16_bytes(W(CRC_INIT), d))

\* FrameHeader::new_from_msg
new_from_msg(m) == [msg_length |-> LenAsU16(Len(m)), crc16 |-> crc16(m)]

\* FrameHeader::as_bytes
frame_as_bytes(f) ==
    LET l == to_le_bytes16(f.msg_length)
        c == to_le_bytes16(f.crc16)
    IN << l[1], l[2], c[1], c[2] >>

\* FrameHeader::parse
FrameHeader_parse(i) ==
    LET r1 == le_u16(i)
    IN IF ~r1.ok THEN r1
       ELSE LET r2 == le_u16(r1.rest)
            IN IF ~r2.ok THEN r2
               ELSE Parsed([msg_length |-> r1.val, crc16 |-> r2.val], r2.rest)

check_crc_low_byte(f, d) ==
    IF crc16(d) % U8 = f.crc16 % U8 THEN [kind |-> "Ok"] ELSE [kind |-> "CRCMismatch"]

\* FrameHeader::check_crc
check_crc(f, d) ==
    IF crc16(d) = f.crc16 THEN [kind |-> "Ok"] ELSE [kind |-> "CRCMismatch"]

(***************************************************************************)
(* lib.rs: Err<E> and the values calls return                              *)
(***************************************************************************)
Ok(v)           == [kind |-> "Ok", val |-> v]
ErrParsing(r)   == [kind |-> "Parsing", val |-> r.err]      \* From<nom::Err<()>>
ErrNotOurs      == [kind |-> "NotOurs", val |-> "none"]
ErrRPCErr(e)    == [kind |-> "RPCErr", val |-> e]
ErrResponseOverrun == [kind |-> "ResponseOverrun", val |-> "none"]
\* parse does not return: an out-of-range slice or index, or an `unwrap()` of an
\* Err, unwinds through it
Panic           == [kind |-> "Panic", val |-> "none"]
Panicked        == [ok |-> FALSE, err |-> "Panic"]
\* `data.slice(RangeTo { end: k })` / `data.slice(RangeFrom { start: k })` is in range
SliceInRange(d, k) == k <= Len(d)
\* `<[u8; k]>::try_from(slice)` is Ok
FitsArray(slice, k) == Len(slice) = k
Unit == "unit"

\* impl From<u32> for BssType
BssTypeFrom(x) ==
    CASE x = W(0) -> "Infra" [] x = W(1) -> "Adhoc" [] x = W(2) -> "Any" [] OTHER -> "Unknown"
\* impl From<u32> for WPS
WPSFrom(x) ==
    CASE x = W(0) -> "Default" [] x = W(1) -> "UserSpecifed" [] x = W(2) -> "MachineSpecified"
      [] x = W(3) -> "Rekey" [] x = W(4) -> "Pushbutton" [] x = W(5) -> "RegistrarSpecified"
      [] x = W(6) -> "None" [] x = W(7) -> "Wsc" [] OTHER -> "Unknown"
\* impl From<u32> for Band
BandFrom(x) ==
    CASE x = W(0) -> "_5Ghz" [] x = W(1) -> "_24Ghz" [] OTHER -> "Unknown"
\* Security::from_bits_truncate: only the declared flag bits survive
\* (0x10e08017 = WEP|TKIP|AES|AES_CMAC|SHARED|WPA|WPA2|WPA3|WPS)
SecurityFromBitsTruncate(x) == And32(x, W2(4320, 32791))

(***************************************************************************)
(* heapless::String<CAP>::push(b as char): a byte of 0x80 and above is a   *)
(* two-byte character; the push fails when the bytes do not fit.           *)
(***************************************************************************)
Utf8Len(b) == IF b < 128 THEN 1 ELSE 2

\* `for b in .. { s.push(b as char).map_err(|_| Err::ResponseOverrun)?; }`
RECURSIVE PushAll(_, _, _, _)
PushAll(str, used, cap, bytes) ==
    IF bytes = << >> THEN Ok(str)
    ELSE IF used + Utf8Len(bytes[1]) > cap THEN ErrResponseOverrun
    ELSE PushAll(Append(str, bytes[1]), used + Utf8Len(bytes[1]), cap, Tail(bytes))

(***************************************************************************)
(* The concrete calls (system_rpcs.rs, tcpip_rpcs.rs, wifi_rpcs.rs)        *)
(***************************************************************************)
MaxScanN == 2          \* largest N of ScanGetAP<N> exercised

PlainCalls == {"GetVersion", "AdapterInit", "DHCPClientStop", "DHCPClientStart",
               "GetIPInfo", "GetMacAddress", "IsScanning", "ScanGetNumAPs",
               "ScanStart", "WifiOn", "WifiOff", "WifiConnect"}
Call(name, n) == [name |-> name, n |-> n]
Calls == { Call(c, 0) : c \in PlainCalls } \cup { Call("ScanGetAP", n) : n \in 1..MaxScanN }

\* the `service:` field of each call's header()
CallService(c) ==
    CASE c.name = "GetVersion" -> "System"
      [] c.name \in {"AdapterInit", "DHCPClientStop", "DHCPClientStart", "GetIPInfo"} -> "TCPIP"
      [] OTHER -> "Wifi"

\* the `request:` field of each call's header() (ids.rs request enums)
CallRequest(c) ==
    CASE c.name = "GetVersion"      -> 1      \* SystemRequest::VersionID
      [] c.name = "AdapterInit"     -> 1      \* TCPIPRequest::AdapterInit
      [] c.name = "DHCPClientStop"  -> 14     \* TCPIPRequest::DHCPClientStop
      [] c.name = "DHCPClientStart" -> 13     \* TCPIPRequest::DHCPClientStart
      [] c.name = "GetIPInfo"       -> 7      \* TCPIPRequest::GetIPInfo
      [] c.name = "GetMacAddress"   -> 8      \* WifiRequest::GetMacAddress
      [] c.name = "IsScanning"      -> 65     \* WifiRequest::IsScanning
      [] c.name = "ScanGetAP"       -> 66     \* WifiRequest::ScanGetAP
      [] c.name = "ScanGetNumAPs"   -> 67     \* WifiRequest::ScanGetNumAPs
      [] c.name = "ScanStart"       -> 64     \* WifiRequest::ScanStart
      [] c.name = "WifiOn"          -> 27     \* WifiRequest::TurnOn
      [] c.name = "WifiOff"         -> 28     \* WifiRequest::TurnOff
      [] c.name = "WifiConnect"     -> 1      \* WifiRequest::Connect

\* RPC::header
header(c, s) == Header(CallService(c), CallRequest(c), "Invocation", s)

HeaderMatchesSequence(hdr, c) ==
    ~ ( \/ hdr.msg_type # "Reply"
        \/ hdr.service # CallService(c)
        \/ hdr.request # CallRequest(c)
        \/ hdr.sequence # seq )

HeaderMatchesAnyRequest(hdr, c) ==
    ~ ( \/ hdr.msg_type # "Reply"
        \/ hdr.service # CallService(c) )

\* the negation of the `if hdr.msg_type != .. || hdr.service != .. || hdr.request != ..`
\* test that every parse makes before it returns NotOurs
HeaderMatches(hdr, c) ==
    ~ ( \/ hdr.msg_type # "Reply"
        \/ hdr.service # CallService(c)
        \/ hdr.request # CallRequest(c) )

\* GetVersion::parse, after the header check
GetVersion_payload(d) ==
    LET l == le_u32(d)
    IN IF ~l.ok THEN ErrParsing(l)
       ELSE IF Gt32(l.val, 16) THEN ErrResponseOverrun
       ELSE PushAll(<< >>, 0, 16, l.rest)

\* DHCPClientStop / DHCPClientStart / ScanStart / WifiOn / WifiOff / WifiConnect
I32_payload(d) ==
    LET r == le_i32(d)
    IN IF ~r.ok THEN ErrParsing(r) ELSE Ok(r.val)

\* GetIPInfo::parse, after the header check
GetIPInfo_payload(d) ==
    LET l == le_u32(d)
    IN IF ~l.ok THEN ErrParsing(l)
       ELSE IF l.val # W(12) THEN ErrRPCErr(1)
       ELSE LET ip == take(4, l.rest)
            IN IF ~ip.ok THEN ErrParsing(ip)
               ELSE LET mask == take(4, ip.rest)
                    IN IF ~mask.ok THEN ErrParsing(mask)
                       ELSE LET gateway == take(4, mask.rest)
                            IN IF ~gateway.ok THEN ErrParsing(gateway)
                               ELSE LET result == le_u32(gateway.rest)
                                    IN IF ~result.ok THEN ErrParsing(result)
                                       ELSE IF result.val # W(0)
                                            THEN ErrRPCErr(AsI32(result.val))
                                            ELSE IF \E a \in {ip.val, mask.val, gateway.val} :
                                                        ~SliceInRange(a, 4)
                                            THEN Panic      \* ip[3], mask[3], gateway[3]
                                            ELSE Ok([ip |-> ip.val, netmask |-> mask.val,
                                                     gateway |-> gateway.val])

GetMacAddress_payload_guards_17(d) ==
    IF Len(d) < 17 THEN ErrRPCErr(-1)
    ELSE IF ~SliceInRange(d, 17) THEN Panic
    ELSE LET mac == PushAll(<< >>, 0, 18, Take(d, 17))
         IN IF mac.kind # "Ok" THEN mac
            ELSE IF ~SliceInRange(d, 18) THEN Panic
            ELSE LET result == le_u32(Drop(d, 18))
                 IN IF ~result.ok THEN ErrParsing(result)
                    ELSE IF result.val # W(0) THEN ErrRPCErr(AsI32(result.val))
                    ELSE Ok(mac.val)

\* GetMacAddress::parse, after the header check
GetMacAddress_payload(d) ==
    IF Len(d) < 18 THEN ErrRPCErr(-1)
    ELSE IF ~SliceInRange(d, 17) THEN Panic
    ELSE LET mac == PushAll(<< >>, 0, 18, Take(d, 17))
         IN IF mac.kind # "Ok" THEN mac
            ELSE IF ~SliceInRange(d, 18) THEN Panic
            ELSE LET result == le_u32(Drop(d, 18))
                 IN IF ~result.ok THEN ErrParsing(result)
                    ELSE IF result.val # W(0) THEN ErrRPCErr(AsI32(result.val))
                    ELSE Ok(mac.val)

\* IsScanning::parse, after the header check
IsScanning_payload(d) ==
    IF Len(d) < 1 THEN ErrRPCErr(Unit) ELSE Ok(d[1] # 0)

\* ScanGetNumAPs::parse, after the header check
ScanGetNumAPs_payload(d) ==
    IF Len(d) < 2 THEN ErrRPCErr(Unit)
    ELSE LET num == le_u16(d)
         IN IF ~num.ok THEN ErrParsing(num) ELSE Ok(num.val)

\* one turn of ScanGetAP::parse's `for i in 0..N` loop: a ScanResult and the rest
ScanResult_parse(d) ==
    LET ssid_len == le_u8(d) IN IF ~ssid_len.ok THEN ssid_len ELSE
    LET ssid_data == take(33, ssid_len.rest) IN IF ~ssid_data.ok THEN ssid_data ELSE
    LET bssid == take(6, ssid_data.rest) IN IF ~bssid.ok THEN bssid ELSE
    LET rssi == le_i16(bssid.rest) IN IF ~rssi.ok THEN rssi ELSE
    LET bss_type == le_u32(rssi.rest) IN IF ~bss_type.ok THEN bss_type ELSE
    LET security == le_u32(bss_type.rest) IN IF ~security.ok THEN security ELSE
    LET wps == le_u32(security.rest) IN IF ~wps.ok THEN wps ELSE
    LET chan == le_u32(wps.rest) IN IF ~chan.ok THEN chan ELSE
    LET band == le_u32(chan.rest) IN IF ~band.ok THEN band ELSE
    IF ~FitsArray(ssid_data.val, 33) \/ ~FitsArray(bssid.val, 6) THEN Panicked ELSE
    Parsed([ssid |-> [len |-> ssid_len.val, value |-> ssid_data.val],
            bssid |-> bssid.val,
            rssi |-> rssi.val,
            bss_type |-> BssTypeFrom(bss_type.val),
            security |-> SecurityFromBitsTruncate(security.val),
            wps |-> WPSFrom(wps.val),
            chan |-> chan.val,
            band |-> BandFrom(band.val)],
           band.rest)

\* the whole `for i in 0..N` loop: the results so far, the bytes left, N - i
RECURSIVE ScanResults_parse(_, _, _)
ScanResults_parse(acc, d, left) ==
    IF left = 0 THEN Parsed(acc, d)
    ELSE LET r == ScanResult_parse(d)
         IN IF ~r.ok THEN r
            ELSE ScanResults_parse(Append(acc, r.val), r.rest, left - 1)

\* ScanGetAP::<N>::parse, after the header check
ScanGetAP_payload(n, d) ==
    LET l == le_u32(d)
    IN IF ~l.ok THEN ErrParsing(l)
       ELSE IF l.val # W(62 * n) THEN ErrResponseOverrun
       ELSE LET rs == ScanResults_parse(<< >>, l.rest, n)
            IN IF rs = Panicked THEN Panic
               ELSE IF ~rs.ok THEN ErrParsing(rs)
               ELSE LET ret_val == le_i32(rs.rest)
                    IN IF ~ret_val.ok THEN ErrParsing(ret_val)
                       ELSE Ok(<<rs.val, ret_val.val>>)

\* what each call's parse does with the bytes after the header
Payload_parse(c, d) ==
    CASE c.name = "GetVersion"    -> GetVersion_payload(d)
      [] c.name = "AdapterInit"   -> Ok(Unit)
      [] c.name = "GetIPInfo"     -> GetIPInfo_payload(d)
      [] c.name = "GetMacAddress" -> GetMacAddress_payload(d)
      [] c.name = "IsScanning"    -> IsScanning_payload(d)
      [] c.name = "ScanGetAP"     -> ScanGetAP_payload(c.n, d)
      [] c.name = "ScanGetNumAPs" -> ScanGetNumAPs_payload(d)
      [] OTHER                    -> I32_payload(d)

parse_checks_header_last(c, d) ==
    LET hr == Header_parse(d)
    IN IF ~hr.ok THEN ErrParsing(hr)
       ELSE LET r == Payload_parse(c, hr.rest)
            IN IF r.kind # "Ok" THEN r
               ELSE IF ~HeaderMatches(hr.val, c) THEN ErrNotOurs
               ELSE r

\* RPC::parse: decode the header, reject a reply that is not ours, decode the payload
parse(c, d) ==
    LET hr == Header_parse(d)
    IN IF ~hr.ok THEN ErrParsing(hr)
       ELSE IF ~HeaderMatches(hr.val, c) THEN ErrNotOurs
       ELSE Payload_parse(c, hr.rest)

(***************************************************************************)
(* RPC::args: each call appends its arguments to a heapless::Vec<u8, 64>.  *)
(* extend_from_slice and push return Err and leave the vector as it was    *)
(* when the bytes do not fit; every call site discards that with `.ok()`.  *)
(***************************************************************************)
BUFF_CAP == 64

\* `buff.extend_from_slice(other).ok()`
extend_from_slice(b, other) ==
    IF Len(b) + Len(other) > BUFF_CAP THEN b ELSE b \o other
\* `buff.push(item).ok()`
push(b, item) ==
    IF Len(b) + 1 > BUFF_CAP THEN b ELSE Append(b, item)

\* `interface as u32` (L3Interface), `mode as u32` (WifiMode)
L3InterfaceAsU32(i) == CASE i = "Station" -> 0 [] i = "AP" -> 1
WifiModeAsU32(m) ==
    CASE m = "None" -> 0 [] m = "Station" -> 1 [] m = "AP" -> 2
      [] m = "StationAndAP" -> 3 [] m = "Promiscuous" -> 4 [] m = "P2P" -> 5

\* WifiConnect::args
WifiConnect_args(r, b) ==
    LET b1 == extend_from_slice(b, to_le_bytes32(W(Len(r.ssid))))
        b2 == extend_from_slice(b1, r.ssid)
        b3 == push(b2, IF Len(r.password) > 0 THEN 0 ELSE 1)
        b4 == IF Len(r.password) > 0
              THEN extend_from_slice(
                       extend_from_slice(b3, to_le_bytes32(W(Len(r.password)))),
                       r.password)
              ELSE b3
        b5 == extend_from_slice(b4, to_le_bytes32(r.security))
        b6 == extend_from_slice(b5, to_le_bytes32(W2(65535, 65535)))
    IN extend_from_slice(b6, to_le_bytes32(r.semaphore))

\* RPC::args of each call; the trait's default writes nothing
args(r, b) ==
    CASE r.name \in {"DHCPClientStop", "DHCPClientStart", "GetIPInfo"} ->
             extend_from_slice(b, to_le_bytes32(W(L3InterfaceAsU32(r.interface))))
      [] r.name = "WifiOn" ->
             extend_from_slice(b, to_le_bytes32(W(WifiModeAsU32(r.mode))))
      [] r.name = "ScanGetAP" ->
             extend_from_slice(b, to_le_bytes16(r.n))
      [] r.name = "WifiConnect" -> WifiConnect_args(r, b)
      [] OTHER -> b

(***************************************************************************)
(* Input domains                                                           *)
(***************************************************************************)
MaxTrail == 2          \* bytes that may follow a header on the stream
MaxPayload == 3        \* longest framed payload

RequestVals  == {0, 1, 2, 66, 255}
\* 0, 7, 0x0102, 0x01020304, 0x80000000, 0xFFFFFFFF
SequenceVals == {W2(0, 0), W2(0, 7), W2(0, 258), W2(258, 772), W2(32768, 0), W2(65535, 65535)}
Headers == { Header(s, r, m, q) : s \in Services, r \in RequestVals,
                                  m \in MsgTypes, q \in SequenceVals }

\* bytes a transport may deliver in each position of the leading word
WireMsgTypes == {0, 1, 2, 3, 4, 255}
WireRequests == {0, 2, 255}
WireServices == {0, 1, 2, 3, 4, 5, 13, 14, 15, 18, 170, 255}
WireVersions == {0, 1}
WireSequences == {W2(0, 7), W2(258, 772)}
Filler(n) == [ i \in 1..n |-> (i * 37) % 256 ]

PayloadBytes == {0, 165}
RECURSIVE SeqsUpTo(_, _)
SeqsUpTo(S, n) ==
    IF n = 0 THEN { << >> }
    ELSE LET shorter == SeqsUpTo(S, n - 1)
         IN shorter \cup { Append(p, b) : p \in { x \in shorter : Len(x) = n - 1 }, b \in S }
Bytes == 0..255

\* sequence numbers a caller issues: 7 and 0xFFFFFFFF
IssueSequences == {W2(0, 7), W2(65535, 65535)}
\* the sequence number a reply may carry instead: 0x80000001
OtherSequences == {W2(32768, 1)}

\* header bytes of a reply: the three services in use and an unassigned one; the
\* call's own request id and another; Invocation, Reply and an unassigned type
ReplyServices == {1, 14, 15, 170}
ReplyRequests(c) == {CallRequest(c), IF CallRequest(c) = 1 THEN 66 ELSE 1}
ReplyMsgTypes == {0, 2, 255}

\* trailing status / return values: 0, 1, -1
StatusVals == {W2(0, 0), W2(0, 1), W2(65535, 65535)}
Text(k) == [ i \in 1..k |-> 48 + i ]

I32Payloads == { to_le_bytes32(v) : v \in StatusVals }
VersionPayloads ==
    { to_le_bytes32(W(lk[1])) \o Text(lk[2]) :
        lk \in {<<0, 0>>, <<3, 3>>, <<16, 16>>, <<17, 17>>, <<3, 5>>, <<5, 3>>,
                <<16, 17>>, <<17, 3>>} }
    \cup { to_le_bytes32(W(8)) \o Filler(8), to_le_bytes32(W(14)) \o Filler(14),
           to_le_bytes32(W2(65535, 65535)) \o Text(3) }
IPPayloads ==
    { to_le_bytes32(W(l)) \o Filler(12) \o to_le_bytes32(st) :
        l \in {11, 12, 13}, st \in StatusVals }
    \cup { to_le_bytes32(W2(1, 12)) \o Filler(12) \o to_le_bytes32(W(0)) }
MacPayloads ==
    { body \o to_le_bytes32(st) : body \in {Text(18), Filler(18)}, st \in StatusVals }
BoolPayloads == { <<0>>, <<1>> }
NumPayloads == { <<3, 0>>, <<255, 255>> }
ScanRecord(ssid_len) == <<ssid_len>> \o Filler(61)
RECURSIVE ScanRecords(_, _)
ScanRecords(ssid_len, n) ==
    IF n = 0 THEN << >> ELSE ScanRecord(ssid_len) \o ScanRecords(ssid_len, n - 1)
ScanPayloads(n) ==
    { to_le_bytes32(W(l)) \o ScanRecords(5, n) \o to_le_bytes32(W(0)) :
        l \in {(62 * n) - 1, 62 * n, (62 * n) + 1} }
    \cup { to_le_bytes32(W(62 * n)) \o ScanRecords(sl, n) \o to_le_bytes32(W(0)) :
        sl \in {0, 33, 34, 255} }
    \cup { to_le_bytes32(W(62 * n)) \o ScanRecords(5, n) \o to_le_bytes32(st) :
        st \in StatusVals }
    \cup { to_le_bytes32(W2(1, 62 * n)) \o ScanRecords(5, n) \o to_le_bytes32(W(0)) }
Payloads ==
    I32Payloads \cup VersionPayloads \cup IPPayloads \cup MacPayloads \cup BoolPayloads
    \cup NumPayloads \cup UNION { ScanPayloads(n) : n \in 1..MaxScanN }

(***************************************************************************)
(* Header / frame decoding harness                                         *)
(***************************************************************************)
RpcIdle ==
    /\ pc = "idle" /\ call = None /\ seq = W(0) /\ sent = << >>
    /\ reply = << >> /\ res = None /\ prev = None
FrameIdle == msg = << >> /\ fh = None /\ data = << >> /\ chk = None
HeaderIdle == h = NoHeader /\ out = << >> /\ inp = << >> /\ dec = None /\ fdec = None
ArgsIdle == rpc = None /\ buff = None

HeaderInit == HeaderIdle /\ FrameIdle /\ RpcIdle /\ ArgsIdle

\* the host builds a header, encodes it and the bytes come back on a loopback
Encode ==
    /\ HeaderIdle
    /\ \E hd \in Headers, t \in 0..MaxTrail :
        /\ h' = hd
        /\ out' = as_bytes(hd)
        /\ inp' = as_bytes(hd) \o Filler(t)
        /\ dec' = None /\ fdec' = None
        /\ UNCHANGED <<fvars, rvars, avars>>

\* the transport delivers the first n bytes of some message
Recv ==
    /\ HeaderIdle
    /\ \E m \in WireMsgTypes, r \in WireRequests, s \in WireServices, v \in WireVersions,
       q \in WireSequences, t \in 0..MaxTrail :
        \E n \in 0..(8 + t) :
            /\ inp' = Take(<<m, r, s, v>> \o to_le_bytes32(q) \o Filler(t), n)
            /\ h' = NoHeader /\ out' = << >>
            /\ dec' = None /\ fdec' = None
            /\ UNCHANGED <<fvars, rvars, avars>>

DecodeHeader ==
    /\ dec = None
    /\ dec' = [kind |-> "Done", input |-> inp, r |-> Header_parse(inp)]
    /\ UNCHANGED <<h, out, inp, fdec, fvars, rvars, avars>>

DecodeFrame ==
    /\ fdec = None
    /\ fdec' = [kind |-> "Done", input |-> inp, r |-> FrameHeader_parse(inp)]
    /\ UNCHANGED <<h, out, inp, dec, fvars, rvars, avars>>

\* the caller drops its buffers once both decoders have run
DiscardInput ==
    /\ dec # None /\ fdec # None
    /\ h' = NoHeader /\ out' = << >> /\ inp' = << >> /\ dec' = None /\ fdec' = None
    /\ UNCHANGED <<fvars, rvars, avars>>

HeaderNext == Encode \/ Recv \/ DecodeHeader \/ DecodeFrame \/ DiscardInput
HeaderSpec == HeaderInit /\ [][HeaderNext]_vars

(***************************************************************************)
(* Frame integrity harness                                                 *)
(***************************************************************************)
FrameInit == HeaderIdle /\ FrameIdle /\ RpcIdle /\ ArgsIdle

\* the sender frames a payload
NewFrame ==
    /\ FrameIdle
    /\ \E p \in SeqsUpTo(PayloadBytes, MaxPayload) :
        /\ msg' = p
        /\ fh' = new_from_msg(p)
        /\ data' = p
        /\ chk' = None
        /\ UNCHANGED <<hvars, rvars, avars>>

\* one byte of the payload changes value in transit
Corrupt ==
    /\ fh # None /\ data = msg /\ chk = None
    /\ \E i \in 1..Len(msg), b \in Bytes :
        /\ b # msg[i]
        /\ data' = [msg EXCEPT ![i] = b]
    /\ chk' = None
    /\ UNCHANGED <<msg, fh, hvars, rvars, avars>>

\* the receiver verifies the payload it got against the frame header
CheckCrc ==
    /\ fh # None /\ chk = None
    /\ chk' = check_crc(fh, data)
    /\ UNCHANGED <<msg, fh, data, hvars, rvars, avars>>

\* the receiver drops the frame once it has been checked
DiscardFrame ==
    /\ chk # None
    /\ msg' = << >> /\ fh' = None /\ data' = << >> /\ chk' = None
    /\ UNCHANGED <<hvars, rvars, avars>>

FrameNext == NewFrame \/ Corrupt \/ CheckCrc \/ DiscardFrame
FrameSpec == FrameInit /\ [][FrameNext]_vars

(***************************************************************************)
(* Framing payloads of any length: new_from_msg takes a slice, whose       *)
(* length is a usize, and stores it in a u16 field.                        *)
(***************************************************************************)
MaxFramed == 4         \* longest of the short payloads framed

FramedBytes == {0, 165, 255}
\* a payload of n zero bytes
Zeroes(n) == [ i \in 1..n |-> 0 ]
\* the short payloads, and the shortest payload whose length needs 17 bits
FramedPayloads == SeqsUpTo(FramedBytes, MaxFramed) \cup { Zeroes(U16) }

PayloadInit == HeaderIdle /\ FrameIdle /\ RpcIdle /\ ArgsIdle

\* the sender frames a payload
BuildFrame ==
    /\ FrameIdle
    /\ \E p \in FramedPayloads :
        /\ msg' = p
        /\ fh' = new_from_msg(p)
    /\ UNCHANGED <<data, chk, hvars, rvars, avars>>

\* the frame has been written out; the sender drops it
ReleaseFrame ==
    /\ fh # None /\ data = << >> /\ chk = None
    /\ msg' = << >> /\ fh' = None
    /\ UNCHANGED <<data, chk, hvars, rvars, avars>>

PayloadNext == BuildFrame \/ ReleaseFrame
PayloadSpec == PayloadInit /\ [][PayloadNext]_vars

(***************************************************************************)
(* Argument serialization harness                                          *)
(***************************************************************************)
L3Interfaces == {"Station", "AP"}
WifiModes == {"None", "Station", "AP", "StationAndAP", "Promiscuous", "P2P"}
\* byte lengths of the ssid and password strings (String<64>)
SsidLens == {0, 1, 8, 32, 55, 59, 60, 61, 64}
PasswordLens == {0, 8, 32, 63, 64}
\* a string of k ASCII letters
Letters(k) == [ i \in 1..k |-> 97 + (i % 26) ]
\* Security::OPEN, Security::WPA2_AES_PSK
SecurityVals == {W2(0, 0), W2(64, 4)}
SemaphoreVals == {W2(0, 0), W2(8192, 4660)}

ArgFree == PlainCalls \ {"DHCPClientStop", "DHCPClientStart", "GetIPInfo", "WifiOn", "WifiConnect"}
Rpc(name, n, interface, mode, ssid, password, security, semaphore) ==
    [name |-> name, n |-> n, interface |-> interface, mode |-> mode, ssid |-> ssid,
     password |-> password, security |-> security, semaphore |-> semaphore]
Rpcs ==
    { Rpc(c, 0, "Station", "None", << >>, << >>, W(0), W(0)) : c \in ArgFree }
    \cup { Rpc(c, 0, i, "None", << >>, << >>, W(0), W(0)) :
              c \in {"DHCPClientStop", "DHCPClientStart", "GetIPInfo"}, i \in L3Interfaces }
    \cup { Rpc("WifiOn", 0, "Station", m, << >>, << >>, W(0), W(0)) : m \in WifiModes }
    \cup { Rpc("ScanGetAP", n, "Station", "None", << >>, << >>, W(0), W(0)) : n \in 1..MaxScanN }
    \cup { Rpc("WifiConnect", 0, "Station", "None", Letters(sl), Letters(pl), sec, sem) :
              sl \in SsidLens, pl \in PasswordLens, sec \in SecurityVals, sem \in SemaphoreVals }

ArgsInit == HeaderIdle /\ FrameIdle /\ RpcIdle /\ ArgsIdle

\* the caller builds a call value
BuildCall ==
    /\ ArgsIdle
    /\ \E r \in Rpcs : rpc' = r
    /\ UNCHANGED <<buff, hvars, fvars, rvars>>

\* the caller serializes the call's arguments into an empty buffer
SerializeArgs ==
    /\ rpc # None /\ buff = None
    /\ buff' = args(rpc, << >>)
    /\ UNCHANGED <<rpc, hvars, fvars, rvars>>

\* the invocation has been written out; call and buffer are dropped
DropCall ==
    /\ buff # None
    /\ rpc' = None /\ buff' = None
    /\ UNCHANGED <<hvars, fvars, rvars>>

ArgsNext == BuildCall \/ SerializeArgs \/ DropCall
ArgsSpec == ArgsInit /\ [][ArgsNext]_vars

(***************************************************************************)
(* One RPC exchange: Built -> Sent -> AwaitingReply -> Parsed              *)
(***************************************************************************)
Init == HeaderIdle /\ FrameIdle /\ RpcIdle /\ ArgsIdle

\* the caller builds a call and transmits its header for the next sequence number
Issue ==
    /\ pc = "idle"
    /\ \E c \in Calls, q \in IssueSequences :
        /\ call' = c
        /\ seq' = q
        /\ sent' = as_bytes(header(c, q))
    /\ pc' = "awaiting"
    /\ UNCHANGED <<reply, res, prev, hvars, fvars, avars>>

\* the transport hands over a reply buffer: a header, a payload, possibly cut short
Deliver ==
    /\ pc = "awaiting"
    /\ \E s \in ReplyServices, r \in ReplyRequests(call), m \in ReplyMsgTypes, p \in Payloads :
        \E n \in 0..(8 + Len(p)) :
            /\ \/ n = 8 + Len(p)
               \/ n = 8
               \/ (m = 2 /\ r = CallRequest(call) /\ s = ServiceAsU32(CallService(call)))
            /\ reply' = Take(<<m, r, s, BASIC_CODEC_VERSION>> \o to_le_bytes32(seq) \o p, n)
    /\ pc' = "received"
    /\ UNCHANGED <<call, seq, sent, res, prev, hvars, fvars, avars>>

\* the caller feeds the buffer to the call's parse
Parse ==
    /\ pc = "received"
    /\ res' = parse(call, reply)
    /\ pc' = "parsed"
    /\ UNCHANGED <<call, seq, sent, reply, prev, hvars, fvars, avars>>

\* the same reply arrives again carrying another sequence number
Resequence ==
    /\ pc = "parsed" /\ prev = None /\ Len(reply) >= 8
    /\ \E q \in OtherSequences :
        reply' = Take(reply, 4) \o to_le_bytes32(q) \o Drop(reply, 8)
    /\ prev' = res
    /\ res' = None
    /\ pc' = "received"
    /\ UNCHANGED <<call, seq, sent, hvars, fvars, avars>>

\* the exchange is over; the call value is dropped
Complete ==
    /\ pc = "parsed"
    /\ pc' = "idle" /\ call' = None /\ seq' = W(0) /\ sent' = << >>
    /\ reply' = << >> /\ res' = None /\ prev' = None
    /\ UNCHANGED <<hvars, fvars, avars>>

Next == Issue \/ Deliver \/ Parse \/ Resequence \/ Complete
Spec == Init /\ [][Next]_vars

(***************************************************************************)
(* Properties                                                              *)
(***************************************************************************)
IsParsed == pc = "parsed"
\* the header fields a reply buffer of 8 bytes or more carries
WireMsgType(d) == d[1]
WireRequest(d) == d[2]
WireService(d) == d[3]
WireSequence(d) == SubSeq(d, 5, 8)
WireHeaderIsOurs(c, d) ==
    /\ WireMsgType(d) = 2
    /\ ServiceFrom(WireService(d)) = CallService(c)
    /\ WireRequest(d) = CallRequest(c)
\* the u32 held in bytes k+1..k+4 of d
WordAt(d, k) == W2(d[k + 3] + (256 * d[k + 4]), d[k + 1] + (256 * d[k + 2]))

\* C1: for a reply of at least 8 bytes, parse returns NotOurs exactly when the
\* header's message type is not Reply, or its service or its request id is not
\* the call's own; the bytes after the header play no part.
C1_NotOursIffHeaderMismatch ==
    (IsParsed /\ Len(reply) >= 8) =>
        ((res.kind = "NotOurs") <=> ~WireHeaderIsOurs(call, reply))

\* a foreign reply whose payload this call would have accepted
C1_Witness ==
    /\ IsParsed /\ res.kind = "NotOurs" /\ Len(reply) > 8
    /\ call.name = "ScanGetAP"
    /\ Payload_parse(call, Drop(reply, 8)).kind = "Ok"

\* C2: decoding the 8 bytes a header encodes to gives the same header back,
\* field by field, and nothing is left over.
C2_HeaderRoundTrip ==
    (h # NoHeader /\ dec # None /\ dec.input = out) =>
        /\ dec.r.ok
        /\ dec.r.val.service = h.service
        /\ dec.r.val.request = h.request
        /\ dec.r.val.msg_type = h.msg_type
        /\ dec.r.val.sequence = h.sequence
        /\ dec.r.rest = << >>

C2_Witness ==
    /\ h # NoHeader /\ dec # None /\ dec.input = out
    /\ h.service = "Unknown" /\ h.msg_type = "Unknown"
    /\ h.request = 255 /\ h.sequence = W2(65535, 65535)

\* C3: an encoded header is 8 bytes: message type, request, service, the
\* version constant 1, then the sequence number least significant byte first.
C3_HeaderWireLayout ==
    (h # NoHeader) =>
        /\ Len(out) = 8
        /\ out[1] = MsgTypeAsU32(h.msg_type)
        /\ out[2] = h.request
        /\ out[3] = ServiceAsU32(h.service)
        /\ out[4] = 1
        /\ out[5] + (256 * out[6]) = h.sequence.lo
        /\ out[7] + (256 * out[8]) = h.sequence.hi

C3_Witness ==
    /\ h # NoHeader /\ h.sequence = W2(258, 772) /\ h.request = 66
    /\ h.service = "WifiCallback" /\ h.msg_type = "Notification"
    /\ out = <<3, 66, 18, 1, 4, 3, 2, 1>>

C4_Header == Header("System", 2, "Invocation", W2(0, 7))

\* C4 as stated: service 1, request 2, Invocation, sequence 7 encodes to
\* 01 01 02 00 07 00 00 00.
C4_Original ==
    (h = C4_Header) => out = <<1, 1, 2, 0, 7, 0, 0, 0>>

\* C4 amended: service 1, request 2, Invocation, sequence 7 encodes to
\* 00 02 01 01 07 00 00 00 (the leading word is little-endian on the wire).
C4_ExampleBytes ==
    (h = C4_Header) => out = <<0, 2, 1, 1, 7, 0, 0, 0>>

C4_Witness == h = C4_Header /\ Len(out) = 8

\* C5: Header::parse on fewer than 8 bytes, and FrameHeader::parse on fewer than
\* 4, asks for more data and never reports a malformed input; on 8 (4) bytes or
\* more it succeeds and hands back exactly the input without its first 8 (4) bytes.
C5_StreamingDecode ==
    /\ (dec # None) =>
          IF Len(dec.input) < 8
          THEN ~dec.r.ok /\ dec.r.err = "Incomplete"
          ELSE dec.r.ok /\ dec.input = SubSeq(dec.input, 1, 8) \o dec.r.rest
    /\ (fdec # None) =>
          IF Len(fdec.input) < 4
          THEN ~fdec.r.ok /\ fdec.r.err = "Incomplete"
          ELSE fdec.r.ok /\ fdec.input = SubSeq(fdec.input, 1, 4) \o fdec.r.rest

\* seven bytes: too few for a header, a frame header and three bytes over
C5_Witness ==
    /\ dec # None /\ fdec # None /\ Len(inp) = 7
    /\ ~dec.r.ok /\ fdec.r.ok /\ Len(fdec.r.rest) = 3

\* C6: a frame header accepts the payload it was built from, and rejects with
\* CRCMismatch the same payload with any one byte changed.
C6_FrameIntegrity ==
    (chk # None) => (chk.kind = (IF data = msg THEN "Ok" ELSE "CRCMismatch"))

C6_Witness ==
    /\ chk # None /\ data # msg /\ Len(msg) >= 2 /\ data[1] # msg[1]
    /\ chk.kind = "CRCMismatch"

\* the 16-bit-register algorithm crc16 is compared with
RECURSIVE RefBits(_, _)
RefBits(reg, n) ==
    IF n = 0 THEN reg
    ELSE IF reg >= 32768
         THEN RefBits(BitXor((reg * 2) % 65536, 4129), n - 1)
         ELSE RefBits((reg * 2) % 65536, n - 1)
RECURSIVE RefCrc(_, _)
RefCrc(reg, d) ==
    IF d = << >> THEN reg
    ELSE RefCrc(RefBits(BitXor(reg, d[1] * 256), 8), Tail(d))
RefCrc16(d) == RefCrc(61258, d)

\* C7: crc16, with its unmasked 32-bit accumulator, gives the value the 16-bit
\* register algorithm gives; the crc of the empty sequence is 0xEF4A.
C7_CrcMatchesReference ==
    /\ (fh # None) => fh.crc16 = RefCrc16(msg)
    /\ (fh # None /\ msg = << >>) => fh.crc16 = 61258
    /\ (chk # None) => ((chk.kind = "Ok") <=> (RefCrc16(data) = fh.crc16))

\* a payload that leaves bits above bit 15 set in the accumulator
C7_Witness ==
    /\ chk # None /\ Len(data) >= 2
    /\ crc16_bytes(W(CRC_INIT), data).hi # 0
    /\ chk.kind = "Ok"

\* a reply that is structurally complete for the calls that return a value
\* together with a trailing status
C8_Complete ==
    /\ IsParsed /\ Len(reply) >= 8 /\ WireHeaderIsOurs(call, reply)
    /\ \/ call.name = "GetIPInfo" /\ Len(reply) = 28 /\ WordAt(reply, 8) = W(12)
       \/ call.name = "GetMacAddress" /\ Len(reply) = 30
       \/ /\ call.name = "ScanGetAP" /\ Len(reply) = 16 + (62 * call.n)
          /\ WordAt(reply, 8) = W(62 * call.n)
C8_Status == WordAt(reply, Len(reply) - 4)

\* C8: GetIPInfo, GetMacAddress and ScanGetAP answer a complete reply whose
\* trailing status is not 0 with RPCErr(status), never with Ok.
C8_NonzeroStatusIsRPCErr ==
    (C8_Complete /\ C8_Status # W(0)) =>
        (res.kind = "RPCErr" /\ res.val = AsI32(C8_Status))

\* C9: GetVersion (at most 16), GetIPInfo (at most 12) and ScanGetAP<N> (at most
\* 62*N) answer a declared length above the call's maximum with ResponseOverrun.
C9_OverlongIsResponseOverrun ==
    ( /\ IsParsed /\ Len(reply) >= 12 /\ WireHeaderIsOurs(call, reply)
      /\ \/ call.name = "GetVersion" /\ Gt32(WordAt(reply, 8), 16)
         \/ call.name = "GetIPInfo" /\ Gt32(WordAt(reply, 8), 12)
         \/ call.name = "ScanGetAP" /\ Gt32(WordAt(reply, 8), 62 * call.n) )
    => res.kind = "ResponseOverrun"

\* C10: two replies that differ only in their sequence bytes get the same
\* outcome from parse, whatever sequence number the call was issued with.
C10_SequenceIgnored ==
    (IsParsed /\ prev # None) => (res.kind = prev.kind /\ res.val = prev.val)

\* an accepted reply whose sequence number is not the one the call went out with
C10_Witness ==
    /\ IsParsed /\ prev # None /\ prev.kind = "Ok" /\ res.kind = "Ok"
    /\ call.name = "ScanStart"
    /\ WireSequence(reply) # to_le_bytes32(seq)

\* C11: the frame header built for a payload carries the payload's exact byte
\* length in msg_length, payloads of 65536 bytes and more included, and the
\* payload's crc in crc16.
C11_FrameDescribesPayload ==
    (fh # None) => (fh.msg_length = Len(msg) /\ fh.crc16 = crc16(msg))

Outcomes == {"Ok", "Parsing", "NotOurs", "RPCErr", "ResponseOverrun"}

\* C12: whatever call is made and whatever buffer is handed to it -- empty, cut
\* at any offset, with any field values -- parse returns Ok(value) or one of
\* the error kinds; it never panics.
C12_ParseIsTotal ==
    IsParsed => res.kind \in Outcomes

\* a matching GetMacAddress reply cut after the 17 bytes of the address, where
\* the slice from offset 18 would be out of range
C12_Witness ==
    /\ IsParsed /\ call.name = "GetMacAddress" /\ Len(reply) = 8 + 17
    /\ WireHeaderIsOurs(call, reply)
    /\ res = ErrRPCErr(-1)

\* the bytes of a u32 and of a u16, least significant first
C13_Le32(x) == << x.lo % 256, x.lo \div 256, x.hi % 256, x.hi \div 256 >>
C13_Le16(x) == << x % 256, x \div 256 >>
\* the complete argument encoding of a call, field after field
C13_Encoding(r) ==
    CASE r.name \in {"DHCPClientStop", "DHCPClientStart", "GetIPInfo"} ->
             C13_Le32(W(IF r.interface = "AP" THEN 1 ELSE 0))
      [] r.name = "WifiOn" -> C13_Le32(W(WifiModeAsU32(r.mode)))
      [] r.name = "ScanGetAP" -> C13_Le16(r.n)
      [] r.name = "WifiConnect" ->
             C13_Le32(W(Len(r.ssid))) \o r.ssid
             \o (IF r.password = << >> THEN <<1>>
                 ELSE <<0>> \o C13_Le32(W(Len(r.password))) \o r.password)
             \o C13_Le32(r.security) \o <<255, 255, 255, 255>> \o C13_Le32(r.semaphore)
      [] OTHER -> << >>

\* C13: after args on an empty buffer, the buffer holds the call's complete
\* argument encoding in field order, for every call and every argument value
\* (WifiConnect with any ssid and password of up to 64 bytes); no field is
\* left out while later fields are written.
C13_ArgsComplete ==
    (buff # None) => buff = C13_Encoding(rpc)

\* C14: decoding a header never fails on the values of its fields: every input
\* of 8 bytes or more decodes; a service byte that is not 1, 2, 3, 4, 13, 14,
\* 15 or 18 gives service Unknown, a message type byte that is not 0..3 gives
\* msg_type Unknown, and the request byte comes through unchanged.
C14_UnknownEnumerants ==
    (dec # None /\ Len(dec.input) >= 8) =>
        /\ dec.r.ok
        /\ (WireService(dec.input) \notin {1, 2, 3, 4, 13, 14, 15, 18})
               => dec.r.val.service = "Unknown"
        /\ (WireMsgType(dec.input) \notin {0, 1, 2, 3})
               => dec.r.val.msg_type = "Unknown"
        /\ dec.r.val.request = WireRequest(dec.input)

\* service byte 0xAA and message type byte 4 in one header
C14_Witness ==
    /\ dec # None /\ Len(dec.input) = 8
    /\ WireService(dec.input) = 170 /\ WireMsgType(dec.input) = 4
    /\ WireRequest(dec.input) = 255
    /\ dec.r.ok /\ dec.r.val.service = "Unknown" /\ dec.r.val.msg_type = "Unknown"

\* C15: parse validates in a fixed order.  A buffer shorter than 8 bytes is a
\* Parsing(need more data) failure, never NotOurs.  A reply of 8 bytes or more
\* whose header is not a Reply for the call's own service and request is
\* NotOurs whatever follows the header.  ResponseOverrun, RPCErr, a Parsing
\* failure in the payload and Ok happen only behind a matching header.
C15_ValidationOrder ==
    IsParsed =>
        /\ (Len(reply) < 8) => res = ErrParsing(Incomplete)
        /\ (Len(reply) >= 8 /\ ~WireHeaderIsOurs(call, reply)) => res = ErrNotOurs
        /\ (\/ res.kind \in {"ResponseOverrun", "RPCErr", "Ok"}
            \/ (res.kind = "Parsing" /\ Len(reply) >= 8))
               => (Len(reply) >= 8 /\ WireHeaderIsOurs(call, reply))

\* seven bytes whose first three are those of the call's own reply header
C15_Witness ==
    /\ IsParsed /\ Len(reply) = 7 /\ call.name = "GetIPInfo"
    /\ WireMsgType(reply) = 2 /\ WireRequest(reply) = 7 /\ WireService(reply) = 15
    /\ res.kind = "Parsing"

\* C16: GetVersion answers a matching reply whose declared length L is at most
\* 16 with Ok of exactly the L bytes that follow the length field, leaving out
\* whatever comes after them, and does not answer Ok when fewer than L bytes
\* follow the length field.
C16_DeclaredLengthHonoured ==
    ( /\ IsParsed /\ call.name = "GetVersion" /\ Len(reply) >= 12
      /\ WireHeaderIsOurs(call, reply) /\ ~Gt32(WordAt(reply, 8), 16) )
    => LET L == WordAt(reply, 8).lo
       IN IF Len(reply) - 12 >= L
          THEN res = Ok(SubSeq(reply, 13, 12 + L))
          ELSE res.kind # "Ok"

\* C17: every ScanResult in an Ok result of ScanGetAP::parse has an ssid whose
\* len is at most 33, the size of its value array.
C17_SsidLenWithinArray ==
    (IsParsed /\ call.name = "ScanGetAP" /\ res.kind = "Ok") =>
        \A i \in 1..Len(res.val[1]) :
            res.val[1][i].ssid.len <= Len(res.val[1][i].ssid.value)

====
